---- MODULE Spec2Model ----
(***************************************************************************)
(* The Aladdin accelerator TLB (src/gem5/aladdin_tlb.cc): the set-         *)
(* associative translation storage TLBMemory, and the AladdinTLB           *)
(* controller with its hit queue, miss queue, outstanding page walks and   *)
(* the two events that complete hits and walks.                            *)
(*                                                                         *)
(* Time is counted in datapath clock cycles: one tick is one cycle.        *)
(* A page number is, as in the source, the address of the page's first     *)
(* byte (vpn = vaddr - vaddr % pageBytes).                                 *)
(***************************************************************************)
EXTENDS Integers, Sequences, FiniteSets, TLC

(* ------------------------------ bounds --------------------------------- *)
\* translateTiming calls in one run
MaxReads == 3
\* the simulated time up to which the datapath may sit idle
MaxTick == 1
\* direct TLBMemory operations in one run of MemSpec, and its last tick
MaxMemOps == 4
MaxMemTick == 2

(* ------------------------ configuration values ------------------------- *)
\* _num_entries of a finite storage (0 selects the infinite storage)
FiniteEntries == 4
assoc == 2
hitLatency == 1
missLatency == 2
pageBytes == 2
bandwidth == 1

\* the addresses the datapath asks about: addresses 0 and 1 share page 0, and
\* pages 0, 4 and 8 share a row of the storage; page 2 lives in the other row
VAddrs == {0, 1, 4, 8}
VPNs == {0, 2, 4, 8}
PPNs == {1, 3}
\* the configured numbers of page-walk units (0: no limit)
WalkLimits == {0, 1, 2}

VARIABLES
  isPerfectTLB,                \* configuration
  numEntries,
  numOutStandingWalks,
  curTick,                     \* the simulator's clock
  entries,                     \* TLBMemory::entries[way][i]
  infEntries,                  \* InfiniteTLBMemory::entries
  hitQueue,
  missQueue,
  outStandingWalks,
  events,                      \* the events scheduled and not yet fired
  numOccupiedMissQueueEntries,
  requests_this_cycle,
  reads, hits, misses, updates,
  aborted,                     \* an assert of the code has failed
  pkts,                        \* the packets the datapath has built
  finished,                    \* the finishTranslation calls received
  lastCall,                    \* the last translateTiming call
  returnedSinceCall,           \* a walk has completed since then
  lastLookup,                  \* MemSpec: the last direct lookup
  memOps,                      \* MemSpec: operations applied
  lastInsert,                  \* MemSpec: the last direct insert
  resident                     \* MemSpec: the pages inserted and not evicted

config == <<isPerfectTLB, numEntries, numOutStandingWalks>>
storage == <<entries, infEntries>>
queues == <<hitQueue, missQueue, outStandingWalks, events>>
counters == <<numOccupiedMissQueueEntries, reads, hits, misses, updates>>
observed == <<pkts, finished, lastCall, returnedSinceCall>>
memvars == <<lastLookup, memOps, lastInsert, resident>>
vars == <<config, curTick, storage, queues, counters, requests_this_cycle,
          aborted, observed, memvars>>

(* --------------------------- TLBMemory --------------------------------- *)
\* TLBMemory's geometry: `sets` slots in each of `ways` rows
sets == assoc
ways == FiniteEntries \div sets

\* AladdinTLBEntry as constructed
FreeEntry == [vpn |-> 0, ppn |-> 0, free |-> TRUE, mruTick |-> 0, hits |-> 0]

EmptyEntries == [w \in 0..(ways - 1) |-> [i \in 0..(sets - 1) |-> FreeEntry]]

\* int way = (vpn / pageBytes) % ways
WayOf(vpn) == (vpn \div pageBytes) % ways

\* entries[way][i].vpn == vpn && !entries[way][i].free
EntryMatches(e, vpn) == e.vpn = vpn /\ ~e.free

\* the slot lookup's scan stops at: the first match from slot 0, or -1
LookupSlot(E, vpn) ==
  LET w == WayOf(vpn)
      m == {i \in 0..(sets - 1) : EntryMatches(E[w][i], vpn)}
  IN IF m = {} THEN -1 ELSE CHOOSE i \in m : \A j \in m : i <= j

LookupFound(E, vpn) == LookupSlot(E, vpn) # -1

\* the ppn lookup hands back: the entry's, or Addr(0)
LookupPpnOfSlotZero(E, vpn) == E[WayOf(vpn)][0].ppn
LookupPpn(E, vpn) ==
  IF LookupFound(E, vpn) THEN E[WayOf(vpn)][LookupSlot(E, vpn)].ppn ELSE 0

\* assert(entries[way][i].mruTick > 0) of lookup holds
LookupAssertOk(E, vpn) ==
  LookupFound(E, vpn) => E[WayOf(vpn)][LookupSlot(E, vpn)].mruTick > 0

\* AladdinTLBEntry::setMRU at time t
SetMRU(e, t) == [e EXCEPT !.mruTick = t]

\* the storage after lookup(vpn, ppn, set_mru) at time t
LookupMem(E, vpn, set_mru, t) ==
  IF ~LookupFound(E, vpn) THEN E
  ELSE LET w == WayOf(vpn)
           i == LookupSlot(E, vpn)
           e == IF set_mru THEN SetMRU(E[w][i], t) ELSE E[w][i]
       IN [E EXCEPT ![w][i] = [e EXCEPT !.hits = e.hits + 1]]

\* insert's scan for a slot, from slot i on: a free slot ends it, otherwise the
\* last slot whose mruTick <= minTick so far; -1 stands for NULL
\* entries[way][i].mruTick <= minTick
StrictlyOlder(mruTick, minTick) == mruTick < minTick
NotNewer(mruTick, minTick) == mruTick <= minTick

RECURSIVE ScanVictim(_, _, _, _, _)
ScanVictim(E, w, i, minTick, entry) ==
  IF i >= sets THEN entry
  ELSE IF E[w][i].free THEN i
  ELSE IF NotNewer(E[w][i].mruTick, minTick)
       THEN ScanVictim(E, w, i + 1, E[w][i].mruTick, i)
       ELSE ScanVictim(E, w, i + 1, minTick, entry)

InsertSlotZero(E, vpn, t) == 0
InsertSlot(E, vpn, t) == ScanVictim(E, WayOf(vpn), 0, t, -1)

\* the scan finds no free slot in the page's row
RowFull(E, vpn) == \A i \in 0..(sets - 1) : ~E[WayOf(vpn)][i].free

\* the slots of the storage, and those of the page's row
Slots == (0..(ways - 1)) \X (0..(sets - 1))
Row(vpn) == {s \in Slots : s[1] = WayOf(vpn)}

\* the occupied slots of the page's row whose mruTick is the least of the row
Oldest(E, vpn) ==
  {s \in Row(vpn) : /\ ~E[s[1]][s[2]].free
                    /\ \A r \in Row(vpn) : E[s[1]][s[2]].mruTick <= E[r[1]][r[2]].mruTick}

\* insert returns early: if (lookup(vpn, a)) return;
InsertPresentNone(E, vpn) == FALSE
InsertPresent(E, vpn) == LookupFound(E, vpn)

\* the storage after insert(vpn, ppn) at time t; insert's lookup runs with
\* set_mru at its default, true
InsertMem(E, vpn, ppn, t) ==
  IF InsertPresent(E, vpn) THEN LookupMem(E, vpn, TRUE, t)
  ELSE LET w == WayOf(vpn)
           i == InsertSlot(E, vpn, t)
       IN [E EXCEPT ![w][i] =
             SetMRU([@ EXCEPT !.vpn = vpn, !.ppn = ppn, !.free = FALSE], t)]

\* the asserts insert passes through hold: lookup's, and assert(entry)
InsertAssertOk(E, vpn, t) ==
  /\ LookupAssertOk(E, vpn)
  /\ ~InsertPresent(E, vpn) => InsertSlot(E, vpn, t) # -1

(* ------------------------ InfiniteTLBMemory ---------------------------- *)
\* a map from page to physical page; pages as its domain
InfLookupFound(M, vpn) == vpn \in DOMAIN M
InfLookupPpn(M, vpn) == IF vpn \in DOMAIN M THEN M[vpn] ELSE 0
InfInsert(M, vpn, ppn) ==
  [v \in (DOMAIN M) \cup {vpn} |-> IF v = vpn THEN ppn ELSE M[v]]

(* ---------------------- the controller's helpers ----------------------- *)
\* Addr vpn = vaddr - vaddr % pageBytes
PageOf(vaddr) == vaddr - (vaddr % pageBytes)

\* tlbMemory->lookup(vpn, ppn): TLBMemory when numEntries > 0, else
\* InfiniteTLBMemory
TlbFound(vpn) ==
  IF numEntries > 0 THEN LookupFound(entries, vpn)
  ELSE InfLookupFound(infEntries, vpn)

\* isPerfectTLB || tlbMemory->lookup(vpn, ppn)
IsHitLookupOnly(vpn) == TlbFound(vpn)
IsHit(vpn) == isPerfectTLB \/ TlbFound(vpn)

\* missQueue: a multimap, kept as its sequence of <<key, packet>> in key order,
\* equal keys in insertion order
MissQueueFindNever(mq, vpn) == FALSE
MissQueueFind(mq, vpn) == \E i \in 1..Len(mq) : mq[i][1] = vpn

MissQueueInsertFirst(mq, vpn, pkt) ==
  LET before == SelectSeq(mq, LAMBDA x : x[1] < vpn)
      after == SelectSeq(mq, LAMBDA x : x[1] >= vpn)
  IN before \o <<(<<vpn, pkt>>)>> \o after
MissQueueInsert(mq, vpn, pkt) ==
  LET before == SelectSeq(mq, LAMBDA x : x[1] <= vpn)
      after == SelectSeq(mq, LAMBDA x : x[1] > vpn)
  IN before \o <<(<<vpn, pkt>>)>> \o after

\* the packets of missQueue.equal_range(vpn), in iteration order
RECURSIVE Seconds(_)
Seconds(s) == IF s = <<>> THEN <<>> ELSE <<Head(s)[2]>> \o Seconds(Tail(s))

EqualRangeFirstOnly(mq, vpn) ==
  LET r == SelectSeq(mq, LAMBDA x : x[1] = vpn)
  IN IF r = <<>> THEN <<>> ELSE <<r[1][2]>>
EqualRange(mq, vpn) == Seconds(SelectSeq(mq, LAMBDA x : x[1] = vpn))

MissQueueEraseNothing(mq, vpn) == mq
MissQueueErase(mq, vpn) == SelectSeq(mq, LAMBDA x : x[1] # vpn)

\* numOutStandingWalks != 0 && outStandingWalks.size() >= numOutStandingWalks
WalkRefusedOffByOne(n, size) == n # 0 /\ size > n
WalkRefused(n, size) == n # 0 /\ size >= n

\* the misses counter when translateTiming returns false
MissesCountedEarly(m) == m + 1
RefusedMisses(m) == m

\* the request deHitQueueEvent finishes, and the queue it leaves
HitQueueBack(q) == q[Len(q)]
HitQueueFront(q) == Head(q)
HitQueuePop(q) == Tail(q)

\* datapath->clockEdge(c): the tick c cycles from now
clockEdge(c) == curTick + c

\* datapath->schedule(ev, when); `by` is the packet whose call made the event
Schedule(evs, kind, when, by) ==
  Append(evs, [kind |-> kind, when |-> when, by |-> by])

\* the event the scheduler fires next: the earliest one, the first scheduled
\* among those of one tick
NextEvent(evs) ==
  CHOOSE i \in 1..Len(evs) :
    \A j \in 1..Len(evs) :
      evs[i].when < evs[j].when \/ (evs[i].when = evs[j].when /\ i <= j)

RemoveAt(s, i) == SubSeq(s, 1, i - 1) \o SubSeq(s, i + 1, Len(s))

EventDue(kind) ==
  /\ events # <<>>
  /\ events[NextEvent(events)].kind = kind
  /\ events[NextEvent(events)].when <= curTick

\* datapath->finishTranslation(pkt, was_miss), as the datapath sees it
finishTranslation(log, pkt, was_miss, ev) ==
  Append(log, [pkt |-> pkt, was_miss |-> was_miss, tick |-> curTick, ev |-> ev])

RECURSIVE FinishAll(_, _, _)
FinishAll(log, ps, ev) ==
  IF ps = <<>> THEN log
  ELSE FinishAll(finishTranslation(log, Head(ps), TRUE, ev), Tail(ps), ev)

\* return requests_this_cycle < bandwidth &&
\*        numOccupiedMissQueueEntries < numOutStandingWalks
canRequestTranslation ==
  /\ requests_this_cycle < bandwidth
  /\ numOccupiedMissQueueEntries < numOutStandingWalks

\* the datapath counts each request the TLB accepted this cycle
\* (incrementRequestCounter), and starts a cycle with resetRequestCounter
incrementRequestCounter(accepted) ==
  IF accepted THEN requests_this_cycle + 1 ELSE requests_this_cycle
resetRequestCounter == 0

(* ------------------------------- Init ---------------------------------- *)
NoCall == [pkt |-> 0, vpn |-> 0, ret |-> TRUE, hit |-> FALSE, opened |-> FALSE,
           walking |-> FALSE, full |-> FALSE, exhausted |-> FALSE,
           could |-> FALSE, retry |-> FALSE]
NoLookup == [vpn |-> 0, found |-> FALSE, ppn |-> 0, at |-> 0]
\* no insert has been called directly yet
NoInsert == [vpn |-> 0, ppn |-> 0, at |-> 0, present |-> FALSE, full |-> FALSE,
             ties |-> 0]

\* the pages insert has been called for and no later insert has overwritten,
\* each with the ppn of the call that installed it (first) and the ppn of the
\* latest call made for it (last)
ResidentAfterInsert(R, E, vpn, ppn, t) ==
  IF InsertPresent(E, vpn)
  THEN [R EXCEPT ![vpn].last = ppn]
  ELSE LET e == E[WayOf(vpn)][InsertSlot(E, vpn, t)]
           kept == IF e.free THEN DOMAIN R ELSE (DOMAIN R) \ {e.vpn}
       IN [v \in kept \cup {vpn} |->
             IF v = vpn THEN [first |-> ppn, last |-> ppn] ELSE R[v]]

\* the two members the constructor's initializer list leaves out, at the
\* values their declarations are taken to give them
UnsetMembers == [numOccupiedMissQueueEntries |-> 0, requests_this_cycle |-> 0]

Init ==
  /\ isPerfectTLB \in BOOLEAN
  /\ numEntries \in {0, FiniteEntries}
  /\ numOutStandingWalks \in WalkLimits
  /\ curTick = 0
  /\ entries = EmptyEntries
  /\ infEntries = <<>>
  /\ hitQueue = <<>>
  /\ missQueue = <<>>
  /\ outStandingWalks = <<>>
  /\ events = <<>>
  /\ numOccupiedMissQueueEntries = UnsetMembers.numOccupiedMissQueueEntries
  /\ requests_this_cycle = UnsetMembers.requests_this_cycle
  /\ reads = 0 /\ hits = 0 /\ misses = 0 /\ updates = 0
  /\ aborted = FALSE
  /\ pkts = <<>>
  /\ finished = <<>>
  /\ lastCall = NoCall
  /\ returnedSinceCall = FALSE
  /\ lastLookup = NoLookup
  /\ lastInsert = NoInsert
  /\ resident = <<>>
  /\ memOps = 0

(* --------------------------- translateTiming --------------------------- *)
\* AladdinTLB::translateTiming(pkt), pkt->req->getPaddr() = vaddr.  lastCall
\* keeps what the call returned, and what held when it was made.
translateTiming(pkt, vaddr) ==
  LET vpn == PageOf(vaddr)
      base == IF pkt > Len(pkts)
              THEN Append(pkts, [vaddr |-> vaddr, status |-> "new", tick |-> 0,
                                 miss |-> FALSE, opened |-> FALSE, call |-> 0,
                                 refusals |-> 0])
              ELSE pkts
      lookedUp == ~isPerfectTLB /\ numEntries > 0
      accept(miss, opened) ==
        [base EXCEPT ![pkt] = [vaddr |-> vaddr, status |-> "accepted",
                               tick |-> curTick, miss |-> miss,
                               opened |-> opened, call |-> reads + 1,
                               refusals |-> base[pkt].refusals]]
      call(ret, hit, opened) ==
        [pkt |-> pkt, vpn |-> vpn, ret |-> ret, hit |-> hit, opened |-> opened,
         walking |-> \E i \in 1..Len(outStandingWalks) : outStandingWalks[i] = vpn,
         full |-> numOutStandingWalks > 0
                    /\ Len(outStandingWalks) >= numOutStandingWalks,
         exhausted |-> requests_this_cycle >= bandwidth,
         could |-> canRequestTranslation,
         retry |-> lastCall.pkt = pkt /\ ~lastCall.ret /\ returnedSinceCall]
  IN
  /\ ~aborted
  /\ reads < MaxReads
  /\ reads' = reads + 1
  /\ returnedSinceCall' = FALSE
  /\ UNCHANGED <<config, curTick, infEntries, updates, finished, memvars>>
  /\ IF lookedUp /\ ~LookupAssertOk(entries, vpn)
     THEN /\ aborted' = TRUE
          /\ pkts' = base
          /\ lastCall' = call(FALSE, FALSE, FALSE)
          /\ UNCHANGED <<entries, queues, numOccupiedMissQueueEntries, hits, misses>>
     ELSE
     /\ aborted' = FALSE
     /\ entries' = IF lookedUp THEN LookupMem(entries, vpn, TRUE, curTick)
                   ELSE entries
     /\ IF IsHit(vpn)
        THEN /\ hits' = hits + 1
             /\ hitQueue' = Append(hitQueue, pkt)
             /\ events' = Schedule(events, "hit", clockEdge(hitLatency), pkt)
             /\ pkts' = accept(FALSE, FALSE)
             /\ lastCall' = call(TRUE, TRUE, FALSE)
             /\ UNCHANGED <<missQueue, outStandingWalks,
                            numOccupiedMissQueueEntries, misses>>
        ELSE IF ~MissQueueFind(missQueue, vpn)
        THEN IF WalkRefused(numOutStandingWalks, Len(outStandingWalks))
             THEN /\ misses' = RefusedMisses(misses)
                  /\ pkts' = [base EXCEPT ![pkt].status = "refused",
                                          ![pkt].refusals = @ + 1]
                  /\ lastCall' = call(FALSE, FALSE, FALSE)
                  /\ UNCHANGED <<queues, numOccupiedMissQueueEntries, hits>>
             ELSE /\ outStandingWalks' = Append(outStandingWalks, vpn)
                  /\ events' = Schedule(events, "walk", clockEdge(missLatency), pkt)
                  /\ numOccupiedMissQueueEntries' = numOccupiedMissQueueEntries + 1
                  /\ misses' = misses + 1
                  /\ missQueue' = MissQueueInsert(missQueue, vpn, pkt)
                  /\ pkts' = accept(TRUE, TRUE)
                  /\ lastCall' = call(TRUE, FALSE, TRUE)
                  /\ UNCHANGED <<hitQueue, hits>>
        ELSE /\ misses' = misses + 1
             /\ missQueue' = MissQueueInsert(missQueue, vpn, pkt)
             /\ pkts' = accept(TRUE, FALSE)
             /\ lastCall' = call(TRUE, FALSE, FALSE)
             /\ UNCHANGED <<hitQueue, outStandingWalks, events,
                            numOccupiedMissQueueEntries, hits>>
  /\ requests_this_cycle' = incrementRequestCounter(lastCall'.ret)

\* the datapath asks for the translation of a new packet
Submit == \E vaddr \in VAddrs : translateTiming(Len(pkts) + 1, vaddr)

\* the datapath asks again for a packet that was refused
Resubmit ==
  \E p \in 1..Len(pkts) :
    /\ pkts[p].status = "refused"
    /\ translateTiming(p, pkts[p].vaddr)

(* ------------------------------ events --------------------------------- *)
\* AladdinTLB::deHitQueueEvent::process
deHitQueueEvent ==
  /\ ~aborted
  /\ EventDue("hit")
  /\ events' = RemoveAt(events, NextEvent(events))
  /\ IF hitQueue = <<>>
     THEN /\ aborted' = TRUE
          /\ UNCHANGED <<hitQueue, finished>>
     ELSE /\ finished' = finishTranslation(finished, HitQueueFront(hitQueue), FALSE,
                                           events[NextEvent(events)].by)
          /\ hitQueue' = HitQueuePop(hitQueue)
          /\ aborted' = FALSE
  /\ UNCHANGED <<config, curTick, storage, missQueue, outStandingWalks, counters,
                 requests_this_cycle, pkts, lastCall, returnedSinceCall, memvars>>

\* AladdinTLB::outStandingWalkReturnEvent::process; with missQueue empty the
\* assert fails, and front() of an empty outStandingWalks is taken to end the
\* run the same way
outStandingWalkReturnEvent ==
  /\ ~aborted
  /\ EventDue("walk")
  /\ events' = RemoveAt(events, NextEvent(events))
  /\ UNCHANGED <<config, curTick, hitQueue, requests_this_cycle, reads, hits,
                 misses, pkts, lastCall, memvars>>
  /\ IF \/ missQueue = <<>>
        \/ outStandingWalks = <<>>
        \/ /\ numEntries > 0
           /\ ~InsertAssertOk(entries, Head(outStandingWalks), curTick)
     THEN /\ aborted' = TRUE
          /\ UNCHANGED <<storage, missQueue, outStandingWalks,
                         numOccupiedMissQueueEntries, updates, finished,
                         returnedSinceCall>>
     ELSE LET vpn == Head(outStandingWalks) IN
          /\ aborted' = FALSE
          /\ IF numEntries > 0
             THEN /\ entries' = InsertMem(entries, vpn, vpn, curTick)
                  /\ UNCHANGED infEntries
             ELSE /\ infEntries' = InfInsert(infEntries, vpn, vpn)
                  /\ UNCHANGED entries
          /\ finished' = FinishAll(finished, EqualRange(missQueue, vpn),
                                   events[NextEvent(events)].by)
          /\ numOccupiedMissQueueEntries' = numOccupiedMissQueueEntries - 1
          /\ missQueue' = MissQueueErase(missQueue, vpn)
          /\ outStandingWalks' = Tail(outStandingWalks)
          /\ updates' = updates + 1
          /\ returnedSinceCall' = TRUE

(* ----------------------- scheduler and datapath ------------------------ *)
\* simulated time moves to the next cycle once every event due has fired; the
\* datapath starts its cycle with resetRequestCounter()
AdvanceTime ==
  /\ ~aborted
  /\ \A i \in 1..Len(events) : events[i].when > curTick
  /\ events # <<>> \/ curTick < MaxTick
  /\ curTick' = curTick + 1
  /\ requests_this_cycle' = resetRequestCounter
  /\ UNCHANGED <<config, storage, queues, counters, aborted, observed, memvars>>

Next ==
  \/ Submit
  \/ Resubmit
  \/ deHitQueueEvent
  \/ outStandingWalkReturnEvent
  \/ AdvanceTime

Spec == Init /\ [][Next]_vars

(* ------------------- TLBMemory driven on its own ----------------------- *)
\* a TLBMemory(FiniteEntries, assoc, pageBytes) whose insert and lookup are
\* called directly, in any order, as simulated time passes
MemInit ==
  /\ Init
  /\ isPerfectTLB = FALSE
  /\ numEntries = FiniteEntries
  /\ numOutStandingWalks = 0

MemFrame ==
  UNCHANGED <<config, infEntries, queues, counters, requests_this_cycle, observed>>

\* TLBMemory::insert(vpn, ppn)
MemInsert ==
  \E vpn \in VPNs, ppn \in PPNs :
    /\ ~aborted
    /\ memOps < MaxMemOps
    /\ memOps' = memOps + 1
    /\ IF InsertAssertOk(entries, vpn, curTick)
       THEN /\ entries' = InsertMem(entries, vpn, ppn, curTick)
            /\ lastInsert' = [vpn |-> vpn, ppn |-> ppn, at |-> memOps',
                              present |-> InsertPresent(entries, vpn),
                              full |-> RowFull(entries, vpn),
                              ties |-> Cardinality(Oldest(entries, vpn))]
            /\ resident' = ResidentAfterInsert(resident, entries, vpn, ppn, curTick)
            /\ aborted' = FALSE
       ELSE /\ aborted' = TRUE
            /\ UNCHANGED <<entries, lastInsert, resident>>
    /\ UNCHANGED <<curTick, lastLookup>>
    /\ MemFrame

\* TLBMemory::lookup(vpn, ppn, set_mru)
MemLookup ==
  \E vpn \in VPNs, set_mru \in BOOLEAN :
    /\ ~aborted
    /\ memOps < MaxMemOps
    /\ memOps' = memOps + 1
    /\ IF LookupAssertOk(entries, vpn)
       THEN /\ entries' = LookupMem(entries, vpn, set_mru, curTick)
            /\ lastLookup' = [vpn |-> vpn, found |-> LookupFound(entries, vpn),
                              ppn |-> LookupPpn(entries, vpn), at |-> memOps']
            /\ aborted' = FALSE
       ELSE /\ aborted' = TRUE
            /\ UNCHANGED <<entries, lastLookup>>
    /\ UNCHANGED <<curTick, lastInsert, resident>>
    /\ MemFrame

MemAdvance ==
  /\ ~aborted
  /\ curTick < MaxMemTick
  /\ curTick' = curTick + 1
  /\ UNCHANGED <<entries, aborted, memvars>>
  /\ MemFrame

MemNext == MemInsert \/ MemLookup \/ MemAdvance

MemSpec == MemInit /\ [][MemNext]_vars

(* ======================= properties of the TLB ========================= *)
Pkts == 1..Len(pkts)
Fins == 1..Len(finished)
Accepted(p) == pkts[p].status = "accepted"
Refused(p) == pkts[p].status = "refused"
FinishCount(p) == Cardinality({i \in Fins : finished[i].pkt = p})
Walks == {outStandingWalks[i] : i \in 1..Len(outStandingWalks)}
MissKeys == {missQueue[i][1] : i \in 1..Len(missQueue)}
Called == lastCall.pkt # 0
\* the last call missed on a page that had no outstanding walk
NewMiss == Called /\ ~lastCall.hit /\ ~lastCall.walking
\* the last call missed on a page whose walk was outstanding
CoalescedMiss == Called /\ ~lastCall.hit /\ lastCall.walking

\* C1: finishTranslation is called exactly once for each request that
\* translateTiming accepted, at the latest when every scheduled event has
\* fired, and never for a request it refused; no assert stops the run, and
\* while events are scheduled the scheduler can always go on.
C1_FinishedExactlyOnce ==
  /\ ~aborted
  /\ \A i \in Fins : finished[i].pkt \in Pkts
  /\ \A p \in Pkts :
       /\ FinishCount(p) <= 1
       /\ FinishCount(p) = 1 => Accepted(p)
       /\ (Accepted(p) /\ events = <<>>) => FinishCount(p) = 1
  /\ events # <<>> =>
       \/ EventDue("hit")
       \/ EventDue("walk")
       \/ \A i \in 1..Len(events) : events[i].when > curTick

\* a refused request, a finished miss and a finished hit, nothing scheduled
C1_Witness ==
  /\ events = <<>>
  /\ \E p \in Pkts : Refused(p) /\ FinishCount(p) = 0
  /\ \E i, j \in Fins : finished[i].was_miss /\ ~finished[j].was_miss

\* C2: with a limit N > 0 of outstanding walks, outStandingWalks never holds
\* more than N pages; with the limit 0 no call is ever refused.
C2_WalksBounded ==
  /\ numOutStandingWalks > 0 => Len(outStandingWalks) <= numOutStandingWalks
  /\ numOutStandingWalks = 0 =>
       /\ \A p \in Pkts : ~Refused(p)
       /\ lastCall.ret

\* the limit is reached and a miss has just been refused for it
C2_Witness ==
  /\ numOutStandingWalks = 2
  /\ Len(outStandingWalks) = numOutStandingWalks
  /\ NewMiss /\ ~lastCall.ret

\* the request that opened the walk an accepted miss p waits for, or waited
\* for: the last one, up to p itself, to open a walk for p's page
Opener(p) ==
  CHOOSE o \in Pkts :
    /\ Accepted(o) /\ pkts[o].opened
    /\ PageOf(pkts[o].vaddr) = PageOf(pkts[p].vaddr)
    /\ pkts[o].call <= pkts[p].call
    /\ \A q \in Pkts :
         (/\ Accepted(q) /\ pkts[q].opened
          /\ PageOf(pkts[q].vaddr) = PageOf(pkts[p].vaddr)
          /\ pkts[q].call <= pkts[p].call) => pkts[q].call <= pkts[o].call

\* C3: a miss on a page whose walk is outstanding is accepted, also with the
\* limit of walks reached, and opens no walk; no page is twice in
\* outStandingWalks; and every request finished as a miss is finished at the
\* tick and by the event that finish the request that opened the walk of its
\* page, missLatency after that walk was opened.
C3_Coalesced ==
  /\ CoalescedMiss => lastCall.ret /\ ~lastCall.opened
  /\ \A i, j \in 1..Len(outStandingWalks) :
       outStandingWalks[i] = outStandingWalks[j] => i = j
  /\ \A p \in Pkts :
       (Accepted(p) /\ pkts[p].miss) =>
         \E o \in Pkts : /\ Accepted(o) /\ pkts[o].opened
                         /\ PageOf(pkts[o].vaddr) = PageOf(pkts[p].vaddr)
                         /\ pkts[o].call <= pkts[p].call
  /\ \A i \in Fins :
       finished[i].was_miss =>
         LET p == finished[i].pkt
             o == Opener(p)
         IN /\ pkts[p].miss
            /\ finished[i].tick = pkts[o].tick + missLatency
            /\ \E j \in Fins :
                 /\ finished[j].pkt = o
                 /\ finished[j].was_miss
                 /\ finished[j].ev = finished[i].ev
                 /\ finished[j].tick = finished[i].tick

\* with one walk unit: a request that joined the walk of its page, at a later
\* tick than the one that opened it, has been finished with it
C3_Witness ==
  /\ numOutStandingWalks = 1
  /\ \E i, j \in Fins :
       /\ finished[i].pkt # finished[j].pkt
       /\ finished[i].ev = finished[j].ev
       /\ finished[i].was_miss /\ finished[j].was_miss
       /\ pkts[finished[i].pkt].tick < pkts[finished[j].pkt].tick

\* C4: with a limit N > 0 reached, a miss on a page without outstanding walk
\* is refused; when the refused request is submitted again after a walk has
\* completed, and no other call came in between, it is accepted and opens a
\* walk for its page (the last of outStandingWalks until a walk completes).
C4_RefusedThenAdmitted ==
  /\ (NewMiss /\ lastCall.full) => ~lastCall.ret
  /\ lastCall.retry => lastCall.ret /\ lastCall.opened
  /\ (lastCall.retry /\ ~returnedSinceCall) =>
       /\ outStandingWalks # <<>>
       /\ outStandingWalks[Len(outStandingWalks)] = lastCall.vpn

\* a refused request has been submitted again after a walk completed
C4_Witness ==
  /\ lastCall.retry
  /\ lastCall.full = FALSE
  /\ Accepted(lastCall.pkt)

\* a step that is a translateTiming call returning false
RefusingCall == reads' = reads + 1 /\ ~lastCall'.ret

\* C5 as stated: a translateTiming call that returns false changes nothing,
\* the counter reads included.
C5_RefusalChangesNothing ==
  [][RefusingCall =>
       UNCHANGED <<entries, infEntries, missQueue, outStandingWalks, hitQueue,
                   events, numOccupiedMissQueueEntries, reads, hits, misses,
                   updates>>]_vars

\* C5, amended: a translateTiming call that returns false adds one to reads
\* and changes nothing else of the storage, the queues, the scheduled events
\* and the counters.
C5_RefusalCountsARead ==
  [][RefusingCall =>
       /\ reads' = reads + 1
       /\ UNCHANGED <<entries, infEntries, missQueue, outStandingWalks, hitQueue,
                      events, numOccupiedMissQueueEntries, hits, misses,
                      updates>>]_vars

\* a call has just been refused while requests wait in missQueue
C5_Witness ==
  /\ Called /\ ~lastCall.ret
  /\ ~returnedSinceCall
  /\ missQueue # <<>>
  /\ reads > hits + misses

\* the finishTranslation calls of hits, in the order they were made
HitFins == SelectSeq(finished, LAMBDA f : ~f.was_miss)

\* C6: the requests accepted as hits are finished, with was_miss = false, in
\* the order in which they were accepted, none overtaken, each hitLatency
\* after its own admission and by the event its own call scheduled.
C6_HitsInOrder ==
  /\ \A i \in 1..Len(HitFins) :
       LET p == HitFins[i].pkt
       IN /\ Accepted(p) /\ ~pkts[p].miss
          /\ HitFins[i].tick = pkts[p].tick + hitLatency
          /\ HitFins[i].ev = p
          /\ \A q \in Pkts :
               (Accepted(q) /\ ~pkts[q].miss /\ pkts[q].call < pkts[p].call) =>
                 \E j \in 1..(i - 1) : HitFins[j].pkt = q
  /\ \A i, j \in 1..Len(HitFins) :
       i < j => pkts[HitFins[i].pkt].call < pkts[HitFins[j].pkt].call
  /\ Len(hitQueue) = Cardinality({i \in 1..Len(events) : events[i].kind = "hit"})

\* two hits that waited in hitQueue together have been finished, the second
\* one found in the storage
C6_Witness ==
  /\ ~isPerfectTLB
  /\ Len(HitFins) >= 2
  /\ pkts[HitFins[2].pkt].tick < HitFins[1].tick

\* C7: the pages that are keys of missQueue are the pages of
\* outStandingWalks, one walk event is scheduled for each of them, and no
\* assert fails: when a walk event fires, missQueue holds a request for
\* outStandingWalks.front().
C7_MissQueueMatchesWalks ==
  /\ ~aborted
  /\ MissKeys = Walks
  /\ Len(outStandingWalks) =
       Cardinality({i \in 1..Len(events) : events[i].kind = "walk"})
  /\ EventDue("walk") =>
       /\ outStandingWalks # <<>>
       /\ MissQueueFind(missQueue, Head(outStandingWalks))

\* a walk event is due with two walks outstanding and three requests waiting
C7_Witness ==
  /\ EventDue("walk")
  /\ Len(outStandingWalks) = 2
  /\ Len(missQueue) = 3

\* C8 as stated: canRequestTranslation is true exactly when fewer requests
\* than the bandwidth were counted this cycle and a walk unit is spare, the
\* limit 0 meaning that one always is; and a miss on a page without
\* outstanding walk, submitted when it is true, is accepted.
C8_CanRequestWhenSpare ==
  /\ canRequestTranslation <=>
       /\ requests_this_cycle < bandwidth
       /\ \/ numOutStandingWalks = 0
          \/ Len(outStandingWalks) < numOutStandingWalks
  /\ (NewMiss /\ lastCall.could) => lastCall.ret

\* C9 as stated: a miss on a page without outstanding walk is refused exactly
\* when the bandwidth of the cycle is used up or the limit of walks is
\* reached, and opens a walk otherwise.
C9_ChecksBandwidthAndWalks ==
  NewMiss =>
    /\ lastCall.ret <=> ~(lastCall.exhausted \/ lastCall.full)
    /\ lastCall.ret => lastCall.opened

\* C9, amended: a miss on a page without outstanding walk is refused exactly
\* when the limit of walks is not 0 and is reached, and opens a walk
\* otherwise, whatever the number of requests counted this cycle.
C9_ChecksWalksOnly ==
  NewMiss =>
    /\ lastCall.ret <=> ~lastCall.full
    /\ lastCall.ret <=> lastCall.opened

\* a walk has been opened with the bandwidth of the cycle used up
C9_Witness ==
  /\ NewMiss /\ lastCall.exhausted /\ ~lastCall.full
  /\ lastCall.ret /\ lastCall.opened
  /\ numOutStandingWalks > 0

\* the occupied entries of the storage that hold page vpn
Holders(vpn) ==
  {<<w, i>> \in (0..(ways - 1)) \X (0..(sets - 1)) :
     ~entries[w][i].free /\ entries[w][i].vpn = vpn}

\* C10: whatever inserts and lookups were applied to a TLBMemory, at most one
\* occupied entry holds a given page.
C10_NoDuplicatePage == \A vpn \in VPNs : Cardinality(Holders(vpn)) <= 1

\* a full row, one of its pages inserted or looked up again since
C10_Witness ==
  /\ \A i \in 0..(sets - 1) : ~entries[0][i].free
  /\ \E i \in 0..(sets - 1) : entries[0][i].hits > 0
  /\ memOps = MaxMemOps

(* --------------------- TLBMemory: lookup after insert ------------------ *)
\* the last direct operation was a lookup, and it returned
LookedUp == memOps > 0 /\ lastLookup.at = memOps

InsertStep == memOps' = memOps + 1 /\ lastInsert'.at = memOps'

\* the slots this step has written
Written == {s \in Slots : entries'[s[1]][s[2]] # entries[s[1]][s[2]]}

\* C12: an insert of a page not present writes one slot of the page's row and
\* leaves every other entry of the storage as it was; the slot written was free
\* if the row had a free slot, and otherwise held a least mruTick of the row
C12_VictimIsFreeOrOldest ==
  [][(InsertStep /\ ~lastInsert'.present) =>
       \E s \in Row(lastInsert'.vpn) :
         /\ Written = {s}
         /\ EntryMatches(entries'[s[1]][s[2]], lastInsert'.vpn)
         /\ IF lastInsert'.full
            THEN s \in Oldest(entries, lastInsert'.vpn)
            ELSE entries[s[1]][s[2]].free]_vars

\* an insert has just overwritten an entry of a row that had no free slot
C12_Witness ==
  /\ memOps > 0
  /\ lastInsert.at = memOps
  /\ ~lastInsert.present
  /\ lastInsert.full

\* this step is a direct insert of a page not present, into a row with no
\* free slot where several entries share the least mruTick
TiedInsertStep ==
  InsertStep /\ ~lastInsert'.present /\ lastInsert'.full /\ lastInsert'.ties > 1

\* C13 as worded: among the entries that share the least mruTick of a full
\* row, insert overwrites the one with the lowest slot index
C13_LowestSlotEvicted ==
  [][TiedInsertStep =>
       \E s \in Oldest(entries, lastInsert'.vpn) :
         /\ Written = {s}
         /\ \A r \in Oldest(entries, lastInsert'.vpn) : s[2] <= r[2]]_vars

\* C13: among the entries that share the least mruTick of a full row, insert
\* overwrites the one with the highest slot index, the last one its scan meets
C13_HighestSlotEvicted ==
  [][TiedInsertStep =>
       \E s \in Oldest(entries, lastInsert'.vpn) :
         /\ Written = {s}
         /\ \A r \in Oldest(entries, lastInsert'.vpn) : s[2] >= r[2]]_vars

\* an insert has just overwritten one of several entries tied for the least
\* mruTick
C13_Witness ==
  /\ memOps > 0
  /\ lastInsert.at = memOps
  /\ ~lastInsert.present
  /\ lastInsert.full
  /\ lastInsert.ties > 1

\* C14 as worded: an insert of a page already present leaves every entry of
\* the storage as it was, in vpn, ppn, free, mruTick and hits
C14_ReinsertChangesNothing ==
  [][(InsertStep /\ lastInsert'.present) => entries' = entries]_vars

(* ------------------- perfect and unbounded storage --------------------- *)
PktPage(p) == PageOf(pkts[p].vaddr)

\* the pages whose walk has completed
Walked == {PktPage(finished[i].pkt) : i \in {j \in Fins : finished[j].was_miss}}

\* C15 as worded: with isPerfectTLB set or numEntries = 0, no accepted request
\* to a page that an earlier accepted request asked for is a miss
C15_SeenPageAlwaysHits ==
  (isPerfectTLB \/ numEntries = 0) =>
    \A p, q \in Pkts :
      (/\ Accepted(p) /\ Accepted(q)
       /\ pkts[q].call < pkts[p].call
       /\ PktPage(q) = PktPage(p)) => ~pkts[p].miss

\* C15: with isPerfectTLB set every request is accepted as a hit and no miss
\* is counted; with numEntries = 0 and isPerfectTLB clear a request is a hit
\* exactly when a walk for its page has completed before the call, so a
\* request made while the page's first walk is outstanding is a miss
C15_HitOnceWalked ==
  /\ isPerfectTLB =>
       /\ misses = 0
       /\ \A p \in Pkts : Accepted(p) /\ ~pkts[p].miss
  /\ (~isPerfectTLB /\ numEntries = 0 /\ Called /\ ~returnedSinceCall) =>
       (lastCall.hit <=> lastCall.vpn \in Walked)

\* unbounded storage: a page asked for twice while its walk was outstanding
\* has just been asked for again, after the walk, and hit
C15_Witness ==
  /\ ~isPerfectTLB
  /\ numEntries = 0
  /\ Called
  /\ ~returnedSinceCall
  /\ lastCall.hit
  /\ \E p \in Pkts :
       Accepted(p) /\ pkts[p].miss /\ ~pkts[p].opened /\ PktPage(p) = lastCall.vpn

(* --------------------------- walk completion --------------------------- *)
\* this step is an outStandingWalkReturnEvent that ran to its end
WalkReturns == updates' = updates + 1

\* the requests that opened a walk, and the one that opened the k-th walk
Openers == {p \in Pkts : Accepted(p) /\ pkts[p].opened}
KthOpener(k) ==
  CHOOSE p \in Openers :
    Cardinality({q \in Openers : pkts[q].call < pkts[p].call}) = k - 1

\* the accepted misses on a page that have not been finished
Waiting(vpn) ==
  {p \in Pkts : Accepted(p) /\ pkts[p].miss /\ PktPage(p) = vpn /\ FinishCount(p) = 0}

\* the page is held by the storage in use, given as its two candidates
StoredIn(E, M, vpn) ==
  IF numEntries > 0 THEN LookupFound(E, vpn) ELSE InfLookupFound(M, vpn)

\* C16: the k-th walk-completion event fires missLatency after the k-th walk
\* was admitted and finds that walk's page at the front of outStandingWalks; it
\* installs the page in the storage, finishes every request waiting on the
\* page, each once and with was_miss = true, removes the entries of that page
\* and no other from missQueue, and pops that page from outStandingWalks
C16_KthEventServesKthWalk ==
  [][WalkReturns =>
       LET vpn == Head(outStandingWalks)
           opener == KthOpener(updates + 1)
           added == {i \in 1..Len(finished') : i > Len(finished)}
       IN /\ PktPage(opener) = vpn
          /\ curTick = pkts[opener].tick + missLatency
          /\ StoredIn(entries', infEntries', vpn)
          /\ SubSeq(finished', 1, Len(finished)) = finished
          /\ Cardinality(added) = Cardinality(Waiting(vpn))
          /\ {finished'[i].pkt : i \in added} = Waiting(vpn)
          /\ opener \in Waiting(vpn)
          /\ \A i \in added : finished'[i].was_miss /\ finished'[i].tick = curTick
          /\ vpn \in MissKeys
          /\ missQueue' = SelectSeq(missQueue, LAMBDA x : x[1] # vpn)
          /\ outStandingWalks' = Tail(outStandingWalks)]_vars

\* the second walk admitted has completed, and a request that joined a walk
\* has been finished
C16_Witness ==
  /\ updates = 2
  /\ \E i \in Fins : finished[i].was_miss /\ ~pkts[finished[i].pkt].opened

\* the walk-completion events that have finished requests
CompletedWalks == {finished[i].ev : i \in {j \in Fins : finished[j].was_miss}}

\* C17: updates is the number of walk-completion events that have run; it
\* changes only in such an event, by one, and that event installs in the
\* storage one page that the storage did not hold; a step that counts a hit
\* leaves updates as it was
C17_UpdatesCountInstalls ==
  /\ [](updates = Cardinality(CompletedWalks))
  /\ [][/\ updates' # updates =>
             /\ EventDue("walk")
             /\ updates' = updates + 1
             /\ Cardinality(CompletedWalks') = Cardinality(CompletedWalks) + 1
             /\ ~StoredIn(entries, infEntries, Head(outStandingWalks))
             /\ StoredIn(entries', infEntries', Head(outStandingWalks))
             /\ IF numEntries > 0
                THEN Cardinality(Written) = 1 /\ infEntries' = infEntries
                ELSE /\ DOMAIN infEntries' = (DOMAIN infEntries) \cup {Head(outStandingWalks)}
                     /\ \A v \in DOMAIN infEntries : infEntries'[v] = infEntries[v]
                     /\ entries' = entries
        /\ hits' # hits => updates' = updates]_vars

\* a walk has completed and a later request to its page has been counted a hit
C17_Witness ==
  /\ ~isPerfectTLB
  /\ updates >= 1
  /\ hits >= 1

\* the finishTranslation calls made for misses
MissFins == {i \in Fins : finished[i].was_miss}

\* C18: the requests finished by one walk-completion event are finished one
\* after the other at one tick, in the order in which translateTiming accepted
\* them: first the request that opened the walk, then those that joined it
C18_WaitersInArrivalOrder ==
  \A i \in MissFins :
    /\ pkts[finished[i].ev].opened
    /\ pkts[finished[i].ev].call <= pkts[finished[i].pkt].call
    /\ \A j \in MissFins :
         (i < j /\ finished[i].ev = finished[j].ev) =>
           /\ pkts[finished[i].pkt].call < pkts[finished[j].pkt].call
           /\ finished[i].tick = finished[j].tick
           /\ \A k \in i..j : k \in MissFins /\ finished[k].ev = finished[i].ev

\* one walk has finished the request that opened it and two that joined it
C18_Witness ==
  \E i \in MissFins :
    /\ i + 2 \in MissFins
    /\ finished[i].ev = finished[i + 2].ev
    /\ finished[i].pkt = finished[i].ev

\* C19: without isPerfectTLB, the storage holds no page whose walk is
\* outstanding: a request to such a page is accepted as a miss and joins the
\* walk without opening another, and the page at the front of outStandingWalks
\* is new to the storage when its walk completes
C19_WalkingPageNotStored ==
  ~isPerfectTLB =>
    /\ \A vpn \in Walks : ~TlbFound(vpn)
    /\ (Called /\ lastCall.walking) =>
         lastCall.ret /\ ~lastCall.hit /\ ~lastCall.opened
    /\ \A p \in Pkts :
         (Accepted(p) /\ FinishCount(p) = 0 /\ PktPage(p) \in Walks) => pkts[p].miss

\* bounded storage: a request has just been made to a page whose walk was
\* outstanding
C19_Witness ==
  /\ ~isPerfectTLB
  /\ numEntries > 0
  /\ Called
  /\ lastCall.walking
  /\ lastCall.vpn \in Walks

(* ------------------------------ counters ------------------------------- *)
\* the translateTiming calls that returned false, over the first n packets
RECURSIVE RefusedCalls(_)
RefusedCalls(n) == IF n = 0 THEN 0 ELSE pkts[n].refusals + RefusedCalls(n - 1)

AcceptedHits == {p \in Pkts : Accepted(p) /\ ~pkts[p].miss}
AcceptedMisses == {p \in Pkts : Accepted(p) /\ pkts[p].miss}

\* C20: reads counts every translateTiming call, hits + misses those that
\* returned true, reads - hits - misses those that returned false, and
\* numOccupiedMissQueueEntries is the length of outStandingWalks
C20_CountersAgree ==
  /\ hits = Cardinality(AcceptedHits)
  /\ misses = Cardinality(AcceptedMisses)
  /\ reads = hits + misses + RefusedCalls(Len(pkts))
  /\ reads - hits - misses = RefusedCalls(Len(pkts))
  /\ numOccupiedMissQueueEntries = Len(outStandingWalks)

\* one walk is outstanding and a request has been refused twice
C20_Witness ==
  /\ misses = 1
  /\ Len(outStandingWalks) = 1
  /\ \E p \in Pkts : pkts[p].refusals = 2

====
